---- MODULE Spec2Model ----
(***************************************************************************)
(* Model of the statement dispatcher Engine::execute (src/src/engine.rs)   *)
(* together with the storage backend and the literal converter it calls.   *)
(* The storage backend (crate::storage) and the literal converter          *)
(* (crate::types) are not part of src/; they are modelled from sections    *)
(* 4.1 and 4.3 of the specification.                                       *)
(***************************************************************************)
EXTENDS Integers, Sequences, FiniteSets, TLC

(***************************************************************************)
(* Bounds of the model.                                                    *)
(***************************************************************************)
\* Integer literals range over 1..MaxInt.
MaxInt == 3

Ints == 1..MaxInt

\* The table names a statement may mention.
TableNames == {"simple_table", "another_table"}

(***************************************************************************)
(* The parsed SQL statement (sqlparser::ast), as far as execute reads it.  *)
(***************************************************************************)
\* sqlparser::ast::Value: an integer literal or a literal of another kind.
NumberLit(n) == [l |-> "Number", n |-> n]
StringLit == [l |-> "SingleQuotedString"]
NullLit == [l |-> "Null"]

Literals == {NumberLit(n) : n \in Ints} \cup {StringLit, NullLit}

\* sqlparser::ast::Expr: a literal (Expr::Value) or another expression.
ValueExpr(lit) == [e |-> "Value", lit |-> lit]
IdentifierExpr == [e |-> "Identifier"]
IntExpr(n) == ValueExpr(NumberLit(n))

IntExprs == {IntExpr(n) : n \in Ints}
Exprs == {ValueExpr(lit) : lit \in Literals} \cup {IdentifierExpr}

\* The WHERE clause: Option<Expr>.
NoSelection == [s |-> "None"]
BinaryOp(op, right) == [s |-> "BinaryOp", op |-> op, right |-> right]
Between(negated, low, high) ==
  [s |-> "Between", negated |-> negated, low |-> low, high |-> high]
InList(negated, list) == [s |-> "InList", negated |-> negated, list |-> list]
IsNullSelection == [s |-> "IsNull"]

BinaryOperators == {"Eq", "Gt", "Lt", "NotEq", "And", "Or"}

\* IN lists of one or two literals: every single literal, every ascending
\* pair, a descending pair, a repeated literal, and lists with an item that
\* is no integer literal.
InLists ==
  {<<IntExpr(a)>> : a \in Ints}
    \cup {<<IntExpr(p[1]), IntExpr(p[2])>> :
            p \in {q \in Ints \X Ints : q[1] < q[2]}}
    \cup {<<IntExpr(2), IntExpr(1)>>, <<IntExpr(1), IntExpr(1)>>,
          <<IntExpr(1), ValueExpr(StringLit)>>, <<IdentifierExpr>>}

EqSelections == {BinaryOp("Eq", r) : r \in Exprs}
OtherBinarySelections ==
  {BinaryOp(op, IntExpr(2)) : op \in BinaryOperators \ {"Eq"}}
BetweenSelections ==
  {Between(neg, lo, hi) : neg \in BOOLEAN, lo \in IntExprs, hi \in IntExprs}
    \cup {Between(neg, IntExpr(1), ValueExpr(StringLit)) : neg \in BOOLEAN}
    \cup {Between(neg, IdentifierExpr, IntExpr(2)) : neg \in BOOLEAN}
InListSelections == {InList(neg, l) : neg \in BOOLEAN, l \in InLists}

\* The WHERE clauses given to SELECT.
QuerySelections ==
  {NoSelection, IsNullSelection} \cup EqSelections \cup OtherBinarySelections
    \cup BetweenSelections \cup InListSelections

\* The WHERE clauses given to UPDATE and DELETE.
IntEqSelections == {BinaryOp("Eq", e) : e \in IntExprs}
MutationSelections ==
  {NoSelection, IsNullSelection, Between(FALSE, IntExpr(1), IntExpr(2)),
   InList(FALSE, <<IntExpr(1)>>)}
    \cup EqSelections \cup OtherBinarySelections

\* Statement::CreateTable { name, .. }
CreateTableStmt(name) == [st |-> "CreateTable", name |-> name]

\* Statement::Insert { table_name, source, .. }; source.body is
\* SetExpr::Values(rows) or another set expression (a sub-select).
ValuesBody(rows) == [b |-> "Values", rows |-> rows]
SelectBody == [b |-> "Select"]
InsertStmt(name, body) == [st |-> "Insert", table_name |-> name, body |-> body]

InsertBodies ==
  {ValuesBody(<<<<e>>>>) : e \in Exprs}
    \cup {ValuesBody(<<<<IntExpr(1), IntExpr(2)>>>>),
          ValuesBody(<<<<IntExpr(1)>>, <<IntExpr(2)>>>>),
          ValuesBody(<<>>), ValuesBody(<<<<>>>>), SelectBody}

\* The INSERT statements: every body into the first table, and one integer
\* and one string into the other one.
InsertInputs ==
  {<<"simple_table", body>> : body \in InsertBodies}
    \cup {<<"another_table", ValuesBody(<<<<e>>>>)>> :
            e \in {IntExpr(1), ValueExpr(StringLit)}}

\* Statement::Update { table_name, assignments, selection }; an assignment
\* is read for its value only.
UpdateStmt(name, assignments, selection) ==
  [st |-> "Update", table_name |-> name, assignments |-> assignments,
   selection |-> selection]

AssignmentLists ==
  {<<e>> : e \in Exprs} \cup {<<>>, <<IntExpr(1), IntExpr(2)>>}

\* The assignments and WHERE clauses given to UPDATE: every integer
\* assignment with no WHERE and with every integer equality, every other
\* assignment with no WHERE and with one equality, and every WHERE clause
\* with one integer assignment.
UpdateInputs ==
  {<<<<a>>, s>> : a \in IntExprs, s \in {NoSelection} \cup IntEqSelections}
    \cup {<<a, s>> : a \in AssignmentLists,
                     s \in {NoSelection, BinaryOp("Eq", IntExpr(1))}}
    \cup {<<<<IntExpr(1)>>, s>> : s \in MutationSelections}

\* Statement::Delete { table_name, selection }
DeleteStmt(name, selection) ==
  [st |-> "Delete", table_name |-> name, selection |-> selection]

\* Statement::Query: body is SetExpr::Select { selection, from, .. } or
\* another set expression; a FROM item is a TableWithJoins whose relation
\* is TableFactor::Table { name } or another factor.
TableFactor(name) == [f |-> "Table", name |-> name]
DerivedFactor == [f |-> "Derived"]
TableWithJoins(relation, joins) == [relation |-> relation, joins |-> joins]
SelectQuery(from, selection) ==
  [st |-> "Query", b |-> "Select", from |-> from, selection |-> selection]
SetOperationQuery == [st |-> "Query", b |-> "SetOperation"]

\* SELECT col FROM name [WHERE selection]
SelectFrom(name, selection) ==
  SelectQuery(<<TableWithJoins(TableFactor(name), 0)>>, selection)

\* Statement::Drop and every other statement tag.
DropStmt(name) == [st |-> "Drop", name |-> name]

(***************************************************************************)
(* The outcome of one call: ExecutionResult.                               *)
(***************************************************************************)
TableCreated(name) == [r |-> "TableCreated", name |-> name]
RecordInserted == [r |-> "RecordInserted"]
RecordsSelected(records) == [r |-> "RecordsSelected", records |-> records]
RecordsUpdated == [r |-> "RecordsUpdated"]
RecordsDeleted == [r |-> "RecordsDeleted"]
TableAlreadyExists(name) == [r |-> "TableAlreadyExists", name |-> name]
UnimplementedBranch(msg) == [r |-> "UnimplementedBranch", msg |-> msg]
TableDoesNotExist(name) == [r |-> "TableDoesNotExist", name |-> name]
\* An index out of bounds: the call aborts and returns no outcome.
Panic == [r |-> "Panic"]

(***************************************************************************)
(* crate::types: the value model and the literal converter.                *)
(***************************************************************************)
\* Type::Int(Int)
TypeInt(n) == [t |-> "Int", v |-> n]

\* Type::try_from(Value): Ok(Type::Int) for an integer literal,
\* Err(TypeError::Unsupported) for every other literal.
TypeTryFrom(lit) ==
  IF lit.l = "Number"
    THEN [ok |-> TRUE, type |-> TypeInt(lit.n)]
    ELSE [ok |-> FALSE, message |-> lit.l]

(***************************************************************************)
(* crate::storage: the predicate model and the in-memory backend.          *)
(* A backend table is an ordered map from the row's value to the row.      *)
(***************************************************************************)
WhereNone == [w |-> "None"]
WhereEqual(type) == [w |-> "Equal", type |-> type]
WhereBetween(low, high) == [w |-> "Between", low |-> low, high |-> high]
WhereIn(set) == [w |-> "In", set |-> set]
WhereNot(inner) == [w |-> "Not", inner |-> inner]

SeqRange(s) == {s[i] : i \in DOMAIN s}

RECURSIVE Matches(_, _)
Matches(where, type) ==
  CASE where.w = "None" -> TRUE
    [] where.w = "Equal" -> type = where.type
    [] where.w = "Between" -> where.low.v <= type.v /\ type.v <= where.high.v
    [] where.w = "In" -> type \in SeqRange(where.set)
    [] where.w = "Not" -> ~Matches(where.inner, type)

\* The keys of a backend table in ascending order.
RECURSIVE Ascending(_)
Ascending(keys) ==
  IF keys = {} THEN <<>>
  ELSE LET least == CHOOSE k \in keys : \A other \in keys : k <= other
       IN <<least>> \o Ascending(keys \ {least})

RECURSIVE FilterRows(_, _, _)
FilterRows(table, order, where) ==
  IF order = <<>> THEN <<>>
  ELSE LET row == table[Head(order)]
           rest == FilterRows(table, Tail(order), where)
       IN IF Matches(where, row[1]) THEN <<row>> \o rest ELSE rest

EmptyMap == [k \in {} |-> <<>>]

\* Storage::create_table
StorageCreateTable(store, name) ==
  IF name \in DOMAIN store
    THEN [ok |-> FALSE, store |-> store]
    ELSE [ok |-> TRUE,
          store |-> [n \in DOMAIN store \cup {name} |->
                       IF n = name THEN EmptyMap ELSE store[n]]]

\* Storage::insert_into: the value of the row is its key and its payload.
StorageInsertInto(store, name, values) ==
  IF name \notin DOMAIN store
    THEN [ok |-> FALSE, store |-> store]
    ELSE LET key == values[1][2].v
             row == <<values[1][2]>>
             old == store[name]
             new == [k \in DOMAIN old \cup {key} |->
                       IF k = key THEN row ELSE old[k]]
         IN [ok |-> TRUE, store |-> [store EXCEPT ![name] = new]]

\* Storage::select: the matching rows in ascending key order; an error for
\* an unknown table and for a table that never received a value.
StorageSelect(store, name, where) ==
  IF name \notin DOMAIN store \/ DOMAIN store[name] = {}
    THEN [ok |-> FALSE]
    ELSE [ok |-> TRUE,
          records |-> FilterRows(store[name], Ascending(DOMAIN store[name]),
                                 where)]

(***************************************************************************)
(* The Engine: its own table registry and its storage backend.             *)
(***************************************************************************)
VARIABLES
  tables,   \* Engine.tables: table name -> (key -> serialized value)
  storage,  \* Engine.storage: the backend, table name -> (key -> row)
  created,  \* history: the names whose CREATE TABLE returned TableCreated
  inserted, \* history: per name, the integers whose INSERT returned RecordInserted
  prev,     \* history: tables, storage and created as the last call found them
  last,     \* history: the statement of the last call and its outcome
  parsed    \* history: the statements the text of the last call parsed into

vars == <<tables, storage, created, inserted, prev, last, parsed>>

\* What a call leaves behind: its outcome and the two maps.
Outcome(result, newTables, newStorage) ==
  [result |-> result, tables |-> newTables, storage |-> newStorage]

\* A call that returns without touching the maps.
Unchanged(result) == Outcome(result, tables, storage)

\* bincode::serialize(&value)
Serialize(value) == <<"bincode", value>>

\* RegisterTable that leaves the Engine's registry as it was.
RegisterTableSkipped(name) == tables

\* RegisterTable that registers the table with a row of its own.
RegisterTableSeeded(name) ==
  [n \in DOMAIN tables \cup {name} |->
     IF n = name THEN [k \in {1} |-> Serialize(1)] ELSE tables[n]]

\* HashMap::insert(name, BTreeMap::new())
RegisterTable(name) ==
  [n \in DOMAIN tables \cup {name} |-> IF n = name THEN EmptyMap ELSE tables[n]]

\* ExecuteCreateTable with the storage error ignored: TableCreated always.
ExecuteCreateTableAlwaysCreated(stmt) ==
  LET table_name == stmt.name
      made == StorageCreateTable(storage, table_name)
  IN Outcome(TableCreated(table_name), RegisterTable(table_name), made.store)

\* The CreateTable arm.
ExecuteCreateTable(stmt) ==
  LET table_name == stmt.name
      made == StorageCreateTable(storage, table_name)
  IN IF made.ok
       THEN Outcome(TableCreated(table_name), RegisterTable(table_name),
                    made.store)
       ELSE Outcome(TableAlreadyExists(table_name), tables, made.store)

\* InsertInto with the row never handed to the backend.
InsertIntoDropped(table_name, type) ==
  IF table_name \in DOMAIN storage
    THEN Outcome(RecordInserted, tables, storage)
    ELSE Outcome(TableDoesNotExist(table_name), tables, storage)

\* InsertInto with the backend's error taken for success.
InsertIntoLenient(table_name, type) ==
  LET put == StorageInsertInto(storage, table_name,
                               <<<<"int_column", type>>>>)
  IN Outcome(RecordInserted, tables, put.store)

\* InsertInto with the row written to the Engine's own map before the
\* backend is asked: the write stays when the backend refuses the row.
InsertIntoRegistryFirst(table_name, type) ==
  LET old == IF table_name \in DOMAIN tables
               THEN tables[table_name] ELSE EmptyMap
      new == [k \in DOMAIN old \cup {type.v} |->
                IF k = type.v THEN Serialize(type.v) ELSE old[k]]
      written == [n \in DOMAIN tables \cup {table_name} |->
                    IF n = table_name THEN new ELSE tables[n]]
      put == StorageInsertInto(storage, table_name,
                               <<<<"int_column", type>>>>)
  IN IF put.ok
       THEN Outcome(RecordInserted, written, put.store)
       ELSE Outcome(TableDoesNotExist(table_name), written, put.store)

\* InsertInto that writes the row to every table the backend holds.
InsertIntoEveryTable(table_name, type) ==
  LET put == StorageInsertInto(storage, table_name,
                               <<<<"int_column", type>>>>)
      all == [n \in DOMAIN storage |->
                StorageInsertInto(storage, n,
                                  <<<<"int_column", type>>>>).store[n]]
  IN IF put.ok
       THEN Outcome(RecordInserted, tables, all)
       ELSE Outcome(TableDoesNotExist(table_name), tables, put.store)

\* The Insert arm, once the first value of the first row is an integer.
InsertInto(table_name, type) ==
  LET put == StorageInsertInto(storage, table_name,
                               <<<<"int_column", type>>>>)
  IN IF put.ok
       THEN Outcome(RecordInserted, tables, put.store)
       ELSE Outcome(TableDoesNotExist(table_name), tables, put.store)

\* The Insert arm.
ExecuteInsert(stmt) ==
  IF stmt.body.b # "Values"
    THEN Unchanged(UnimplementedBranch("VALUES INSERTION"))
  ELSE LET values == stmt.body.rows
       IN IF values = <<>> \/ values[1] = <<>>
            THEN Unchanged(Panic)
          ELSE LET value == values[1][1]
               IN IF value.e # "Value"
                    THEN Unchanged(UnimplementedBranch("PARSING IN INSERT"))
                  ELSE LET converted == TypeTryFrom(value.lit)
                       IN IF converted.ok /\ converted.type.t = "Int"
                            THEN InsertInto(stmt.table_name, converted.type)
                            ELSE Unchanged(UnimplementedBranch(
                                             "STRING PARSING IN INSERT"))

\* The keys an UPDATE or DELETE resolves from its WHERE clause: a list of
\* keys, or the error the arm returns at once.
ResolveKeys(table, selection) ==
  CASE selection.s = "BinaryOp" ->
         IF selection.right.e # "Value"
           THEN [ok |-> FALSE, result |-> UnimplementedBranch("Non value RHS")]
         ELSE LET converted == TypeTryFrom(selection.right.lit)
              IN IF ~converted.ok
                   THEN [ok |-> FALSE,
                         result |-> UnimplementedBranch(converted.message)]
                 ELSE IF converted.type.t # "Int"
                   THEN [ok |-> FALSE,
                         result |-> UnimplementedBranch("is not supported yet")]
                 ELSE [ok |-> TRUE, keys |-> <<converted.type.v>>]
    [] selection.s = "None" ->
         [ok |-> TRUE, keys |-> Ascending(DOMAIN table)]
    [] OTHER -> [ok |-> FALSE, result |-> UnimplementedBranch("WHERE CLAUSE")]

\* ResolveValue with a literal that is no integer taken for a default value.
ResolveValueDefault(assignment) ==
  IF assignment.e # "Value"
    THEN [ok |-> FALSE, result |-> UnimplementedBranch("Non value RHS")]
  ELSE LET converted == TypeTryFrom(assignment.lit)
       IN IF converted.ok /\ converted.type.t = "Int"
            THEN [ok |-> TRUE, value |-> converted.type.v]
            ELSE [ok |-> TRUE, value |-> 0]

\* The value an UPDATE resolves from its first assignment.
ResolveValue(assignment) ==
  IF assignment.e # "Value"
    THEN [ok |-> FALSE, result |-> UnimplementedBranch("Non value RHS")]
  ELSE LET converted == TypeTryFrom(assignment.lit)
       IN IF ~converted.ok
            THEN [ok |-> FALSE,
                  result |-> UnimplementedBranch(converted.message)]
          ELSE IF converted.type.t # "Int"
            THEN [ok |-> FALSE,
                  result |-> UnimplementedBranch("is not supported yet")]
          ELSE [ok |-> TRUE, value |-> converted.type.v]

\* for key in keys { if let Some(old) = table.get_mut(&key) { *old = .. } }
RECURSIVE OverwriteKeys(_, _, _)
OverwriteKeys(table, keys, value) ==
  IF keys = <<>> THEN table
  ELSE LET key == Head(keys)
           next == IF key \in DOMAIN table
                     THEN [table EXCEPT ![key] = Serialize(value)]
                     ELSE table
       IN OverwriteKeys(next, Tail(keys), value)

\* for key in keys { table.remove(&key); }
RemoveKeys(table, keys) ==
  [k \in DOMAIN table \ SeqRange(keys) |-> table[k]]

\* self.tables.get_mut(&table_name): Some(table) or None.
LookupTable(table_name) == table_name \in DOMAIN tables

\* ExecuteUpdate writing to the backend and leaving its loop after the
\* first row.
ExecuteUpdateFirstRow(stmt) ==
  IF stmt.table_name \notin DOMAIN storage
    THEN Unchanged(TableDoesNotExist(stmt.table_name))
  ELSE LET table == storage[stmt.table_name]
           keys == ResolveKeys(table, stmt.selection)
       IN IF ~keys.ok THEN Unchanged(keys.result)
          ELSE IF stmt.assignments = <<>> THEN Unchanged(Panic)
          ELSE LET value == ResolveValue(stmt.assignments[1])
               IN IF ~value.ok THEN Unchanged(value.result)
                  ELSE IF keys.keys = <<>> \/ Head(keys.keys) \notin DOMAIN table
                    THEN Unchanged(RecordsUpdated)
                  ELSE Outcome(RecordsUpdated, tables,
                         [storage EXCEPT ![stmt.table_name][Head(keys.keys)] =
                            <<TypeInt(value.value)>>])

\* The Update arm.
ExecuteUpdate(stmt) ==
  IF ~LookupTable(stmt.table_name)
    THEN Unchanged(TableDoesNotExist(stmt.table_name))
  ELSE LET table == tables[stmt.table_name]
           keys == ResolveKeys(table, stmt.selection)
       IN IF ~keys.ok THEN Unchanged(keys.result)
          ELSE IF stmt.assignments = <<>> THEN Unchanged(Panic)
          ELSE LET value == ResolveValue(stmt.assignments[1])
               IN IF ~value.ok THEN Unchanged(value.result)
                  ELSE Outcome(RecordsUpdated,
                         [tables EXCEPT ![stmt.table_name] =
                            OverwriteKeys(table, keys.keys, value.value)],
                         storage)

\* ExecuteDelete with the WHERE clause resolved before the table lookup.
ExecuteDeleteClauseFirst(stmt) ==
  LET known == LookupTable(stmt.table_name)
      table == IF known THEN tables[stmt.table_name] ELSE EmptyMap
      keys == ResolveKeys(table, stmt.selection)
  IN IF ~keys.ok THEN Unchanged(keys.result)
     ELSE IF ~known THEN Unchanged(TableDoesNotExist(stmt.table_name))
     ELSE Outcome(RecordsDeleted,
            [tables EXCEPT ![stmt.table_name] = RemoveKeys(table, keys.keys)],
            storage)

\* ExecuteDelete that takes a key the table does not hold for an error.
ExecuteDeleteMissingKey(stmt) ==
  IF ~LookupTable(stmt.table_name)
    THEN Unchanged(TableDoesNotExist(stmt.table_name))
  ELSE LET table == tables[stmt.table_name]
           keys == ResolveKeys(table, stmt.selection)
       IN IF ~keys.ok THEN Unchanged(keys.result)
          ELSE IF ~(SeqRange(keys.keys) \subseteq DOMAIN table)
            THEN Unchanged(UnimplementedBranch("NO SUCH KEY"))
          ELSE Outcome(RecordsDeleted,
                 [tables EXCEPT ![stmt.table_name] =
                    RemoveKeys(table, keys.keys)],
                 storage)

\* The Delete arm.
ExecuteDelete(stmt) ==
  IF ~LookupTable(stmt.table_name)
    THEN Unchanged(TableDoesNotExist(stmt.table_name))
  ELSE LET table == tables[stmt.table_name]
           keys == ResolveKeys(table, stmt.selection)
       IN IF ~keys.ok THEN Unchanged(keys.result)
          ELSE Outcome(RecordsDeleted,
                 [tables EXCEPT ![stmt.table_name] =
                    RemoveKeys(table, keys.keys)],
                 storage)

\* The outcome of a storage.select call, as each WHERE branch wraps it:
\* map(RecordsSelected) and map_err(UnimplementedBranch).
Selected(table_name, where, msg) ==
  LET got == StorageSelect(storage, table_name, where)
  IN IF got.ok
       THEN Unchanged(RecordsSelected(got.records))
       ELSE Unchanged(UnimplementedBranch(msg))

\* SelectEqual with the predicate left out: Where::None for Where::Equal.
SelectEqualMatchAll(table_name, right) ==
  IF right.e # "Value"
    THEN Unchanged(UnimplementedBranch("IN WHERE X = RIGHT"))
  ELSE LET converted == TypeTryFrom(right.lit)
       IN IF converted.ok /\ converted.type.t = "Int"
            THEN Selected(table_name, WhereNone, "NO INSERTED VALUE")
            ELSE Unchanged(UnimplementedBranch(
                             "STRING PARSING IN WHERE X = RIGHT"))

\* WHERE col = right
SelectEqual(table_name, right) ==
  IF right.e # "Value"
    THEN Unchanged(UnimplementedBranch("IN WHERE X = RIGHT"))
  ELSE LET converted == TypeTryFrom(right.lit)
       IN IF converted.ok /\ converted.type.t = "Int"
            THEN Selected(table_name, WhereEqual(converted.type),
                          "NO INSERTED VALUE")
            ELSE Unchanged(UnimplementedBranch(
                             "STRING PARSING IN WHERE X = RIGHT"))

\* BetweenWhere with the two branches exchanged.
BetweenWhereInverted(negated, low, high) ==
  IF negated
    THEN WhereBetween(low, high)
    ELSE WhereNot(WhereBetween(low, high))

\* BetweenWhere with the negated branch a copy of the plain one.
BetweenWhereSame(negated, low, high) ==
  IF negated
    THEN WhereBetween(low, high)
    ELSE WhereBetween(low, high)

\* The predicate of the two BETWEEN branches.
BetweenWhere(negated, low, high) ==
  IF negated
    THEN WhereNot(WhereBetween(low, high))
    ELSE WhereBetween(low, high)

\* WHERE col [NOT] BETWEEN low AND high
SelectBetween(table_name, negated, low, high) ==
  IF low.e # "Value" \/ high.e # "Value"
    THEN Unchanged(UnimplementedBranch("IN WHERE BETWEEN"))
  ELSE LET lo == TypeTryFrom(low.lit)
           hi == TypeTryFrom(high.lit)
       IN IF lo.ok /\ lo.type.t = "Int" /\ hi.ok /\ hi.type.t = "Int"
            THEN Selected(table_name, BetweenWhere(negated, lo.type, hi.type),
                          "STRING PARSING IN WHERE BETWEEN")
            ELSE Unchanged(UnimplementedBranch(
                             "STRING PARSING IN WHERE BETWEEN"))

\* for item in list { .. set.push(Type::Int(value)) .. }: the converted
\* list, or the error of the first item that is no integer literal.
RECURSIVE ConvertList(_)
ConvertList(list) ==
  IF list = <<>> THEN [ok |-> TRUE, set |-> <<>>]
  ELSE LET item == Head(list)
       IN IF item.e # "Value"
            THEN [ok |-> FALSE,
                  result |-> UnimplementedBranch("VALUES PARSING IN WHERE IN")]
          ELSE LET converted == TypeTryFrom(item.lit)
               IN IF ~(converted.ok /\ converted.type.t = "Int")
                    THEN [ok |-> FALSE,
                          result |-> UnimplementedBranch(
                                       "STRING PARSING IN WHERE IN")]
                  ELSE LET rest == ConvertList(Tail(list))
                       IN IF rest.ok
                            THEN [ok |-> TRUE,
                                  set |-> <<converted.type>> \o rest.set]
                            ELSE rest

\* The predicate of the two IN branches: both build Not(In(set)).
InListWhere(negated, set) ==
  IF ~negated
    THEN WhereNot(WhereIn(set))
    ELSE WhereNot(WhereIn(set))

\* WHERE col [NOT] IN (list)
SelectInList(table_name, negated, list) ==
  LET set == ConvertList(list)
  IN IF ~set.ok THEN Unchanged(set.result)
     ELSE Selected(table_name, InListWhere(negated, set.set), "WHERE CLAUSE")

\* ExecuteQuery with the operator of a comparison not looked at, as the
\* Update and Delete arms do: every binary operator is taken for equality.
ExecuteQueryAnyOperator(stmt) ==
  IF stmt.b # "Select" THEN Unchanged(UnimplementedBranch("SELECT QUERY"))
  ELSE IF stmt.from = <<>> THEN Unchanged(Panic)
  ELSE LET relation == stmt.from[1].relation
           selection == stmt.selection
       IN IF relation.f # "Table"
            THEN Unchanged(UnimplementedBranch(
                             "SELECTION FROM MULTIPLE TABLES"))
          ELSE LET table_name == relation.name
               IN CASE selection.s = "BinaryOp" ->
                         SelectEqual(table_name, selection.right)
                    [] selection.s = "Between" ->
                         SelectBetween(table_name, selection.negated,
                                       selection.low, selection.high)
                    [] selection.s = "InList" ->
                         SelectInList(table_name, selection.negated,
                                      selection.list)
                    [] selection.s = "None" ->
                         Selected(table_name, WhereNone, "WHERE CLAUSE")
                    [] OTHER -> Unchanged(UnimplementedBranch("WHERE CLAUSE"))

\* The Query arm.
ExecuteQuery(stmt) ==
  IF stmt.b # "Select" THEN Unchanged(UnimplementedBranch("SELECT QUERY"))
  ELSE IF stmt.from = <<>> THEN Unchanged(Panic)
  ELSE LET relation == stmt.from[1].relation
           selection == stmt.selection
       IN IF relation.f # "Table"
            THEN Unchanged(UnimplementedBranch(
                             "SELECTION FROM MULTIPLE TABLES"))
          ELSE LET table_name == relation.name
               IN CASE selection.s = "BinaryOp" ->
                         IF selection.op = "Eq"
                           THEN SelectEqual(table_name, selection.right)
                           ELSE Unchanged(UnimplementedBranch(
                                            "OPERATOR IN WHERE CLAUSE"))
                    [] selection.s = "Between" ->
                         SelectBetween(table_name, selection.negated,
                                       selection.low, selection.high)
                    [] selection.s = "InList" ->
                         SelectInList(table_name, selection.negated,
                                      selection.list)
                    [] selection.s = "None" ->
                         Selected(table_name, WhereNone, "WHERE CLAUSE")
                    [] OTHER -> Unchanged(UnimplementedBranch("WHERE CLAUSE"))

\* ExecuteOther that carries out a DROP TABLE.
ExecuteOtherDrops(stmt) ==
  IF stmt.st # "Drop" THEN Unchanged(UnimplementedBranch("STATEMENT"))
  ELSE Outcome(UnimplementedBranch("STATEMENT"),
               [n \in DOMAIN tables \ {stmt.name} |-> tables[n]],
               [n \in DOMAIN storage \ {stmt.name} |-> storage[n]])

\* Every other statement tag.
ExecuteOther(stmt) == Unchanged(UnimplementedBranch("STATEMENT"))

\* Parser::parse_sql returned an error.
ExecuteParseError(stmt) == Unchanged(UnimplementedBranch("ParserError"))

\* statements.pop() of an empty list: None.
NoStatement == [st |-> "Empty"]

\* Pop that takes the first statement of the text.
PopFirst(statements) ==
  IF statements = <<>> THEN NoStatement ELSE Head(statements)

\* statements.pop(): the last statement of the text, if any.
Pop(statements) ==
  IF statements = <<>> THEN NoStatement ELSE statements[Len(statements)]

\* match statements.pop() { .. }: the arm of the statement's tag.
ExecuteStatement(stmt) ==
  CASE stmt.st = "CreateTable" -> ExecuteCreateTable(stmt)
    [] stmt.st = "Insert" -> ExecuteInsert(stmt)
    [] stmt.st = "Update" -> ExecuteUpdate(stmt)
    [] stmt.st = "Delete" -> ExecuteDelete(stmt)
    [] stmt.st = "Query" -> ExecuteQuery(stmt)
    [] OTHER -> ExecuteOther(stmt)

(***************************************************************************)
(* One step is one call of execute, from the statement to the outcome.     *)
(***************************************************************************)
Init ==
  /\ tables = EmptyMap
  /\ storage = EmptyMap
  /\ created = {}
  /\ inserted = [name \in TableNames |-> {}]
  /\ prev = [tables |-> EmptyMap, storage |-> EmptyMap, created |-> {}]
  /\ last = [stmt |-> [st |-> "None"], result |-> [r |-> "None"]]
  /\ parsed = <<>>

Step(statements, stmt, out) ==
  /\ parsed' = statements
  /\ tables' = out.tables
  /\ storage' = out.storage
  /\ created' = IF out.result.r = "TableCreated"
                  THEN created \cup {out.result.name}
                  ELSE created
  /\ inserted' = IF out.result.r = "RecordInserted"
                   THEN [inserted EXCEPT ![stmt.table_name] =
                           @ \cup {stmt.body.rows[1][1].lit.n}]
                   ELSE inserted
  /\ prev' = [tables |-> tables, storage |-> storage, created |-> created]
  /\ last' = [stmt |-> stmt, result |-> out.result]

\* A call whose text parses into the one statement stmt.
Execute(stmt, out) == Step(<<stmt>>, stmt, out)

CreateTable ==
  \E name \in TableNames :
    LET stmt == CreateTableStmt(name) IN Execute(stmt, ExecuteCreateTable(stmt))

Insert ==
  \E input \in InsertInputs :
    LET stmt == InsertStmt(input[1], input[2])
    IN Execute(stmt, ExecuteInsert(stmt))

Update ==
  \E name \in TableNames, input \in UpdateInputs :
    LET stmt == UpdateStmt(name, input[1], input[2])
    IN Execute(stmt, ExecuteUpdate(stmt))

Delete ==
  \E name \in TableNames, selection \in MutationSelections :
    LET stmt == DeleteStmt(name, selection) IN Execute(stmt, ExecuteDelete(stmt))

Queries ==
  {SelectFrom(name, selection) :
     name \in TableNames, selection \in QuerySelections}
    \cup {SelectQuery(<<>>, NoSelection), SetOperationQuery,
          SelectQuery(<<TableWithJoins(DerivedFactor, 0)>>, NoSelection)}
    \cup {SelectQuery(<<TableWithJoins(TableFactor(a), 0),
                        TableWithJoins(TableFactor(b), 0)>>, NoSelection) :
            a \in TableNames, b \in TableNames}
    \cup {SelectQuery(<<TableWithJoins(TableFactor(a), 1)>>, NoSelection) :
            a \in TableNames}

Query ==
  \E stmt \in Queries : Execute(stmt, ExecuteQuery(stmt))

Other ==
  \E name \in TableNames :
    LET stmt == DropStmt(name) IN Execute(stmt, ExecuteOther(stmt))

ParseError ==
  LET stmt == [st |-> "ParseError"]
  IN Step(<<>>, stmt, ExecuteParseError(stmt))

\* The texts of no statement and of two statements.
Scripts ==
  {<<>>}
    \cup {<<a, b>> :
            a \in {CreateTableStmt("simple_table"),
                   CreateTableStmt("another_table"),
                   InsertStmt("simple_table", ValuesBody(<<<<IntExpr(1)>>>>))},
            b \in {CreateTableStmt("simple_table"),
                   InsertStmt("simple_table", ValuesBody(<<<<IntExpr(2)>>>>)),
                   SelectFrom("simple_table", NoSelection),
                   DropStmt("simple_table")}}

\* A call whose text parses into no statement or into several.
Script ==
  \E statements \in Scripts :
    LET stmt == Pop(statements)
    IN Step(statements, stmt, ExecuteStatement(stmt))

Next ==
  \/ CreateTable
  \/ Insert
  \/ Update
  \/ Delete
  \/ Query
  \/ Other
  \/ ParseError
  \/ Script

Spec == Init /\ [][Next]_vars

(***************************************************************************)
(* Properties.                                                             *)
(***************************************************************************)
\* The rows a SELECT returns for a set of integers: one single-element row
\* per integer, the i-th row holding the i-th smallest integer.
RowsInOrder(values) ==
  [i \in 1..Cardinality(values) |->
     <<TypeInt(CHOOSE v \in values :
                 Cardinality({u \in values : u <= v}) = i)>>]

\* INSERT INTO name VALUES (v)
InsertValue(name, v) == InsertStmt(name, ValuesBody(<<<<IntExpr(v)>>>>))

\* The last call left both maps as it found them.
LastChangedNothing == tables = prev.tables /\ storage = prev.storage

\* C1: CREATE TABLE n returns TableCreated(n) exactly when no earlier
\* CREATE TABLE n succeeded, whatever other tables exist; otherwise it
\* returns TableAlreadyExists(n) and leaves the tables and their rows as
\* they were.
C1_CreateTableOnce ==
  \A n \in TableNames :
    last.stmt = CreateTableStmt(n) =>
      /\ (last.result = TableCreated(n)) <=> (n \notin prev.created)
      /\ n \in prev.created =>
           /\ last.result = TableAlreadyExists(n)
           /\ LastChangedNothing

\* A second CREATE TABLE of a table that holds rows, next to another table.
C1_Witness ==
  /\ last.stmt = CreateTableStmt("simple_table")
  /\ last.result = TableAlreadyExists("simple_table")
  /\ "another_table" \in created
  /\ inserted["simple_table"] # {}

\* C2: every INSERT of an integer into a created table returns
\* RecordInserted, and a SELECT with no WHERE clause on a table that has
\* received integers returns one single-element row per inserted integer,
\* in ascending order of value, whatever the order of the INSERTs was.
C2_InsertSelectRoundTrip ==
  \A n \in TableNames :
    /\ \A v \in Ints :
         (last.stmt = InsertValue(n, v) /\ n \in prev.created) =>
           last.result = RecordInserted
    /\ (last.stmt = SelectFrom(n, NoSelection) /\ inserted[n] # {}) =>
         last.result = RecordsSelected(RowsInOrder(inserted[n]))

\* All of 1..MaxInt selected from a table that received them.
C2_Witness ==
  /\ last.stmt = SelectFrom("simple_table", NoSelection)
  /\ inserted["simple_table"] = Ints
  /\ last.result.r = "RecordsSelected"
  /\ Len(last.result.records) = MaxInt

\* C3: SELECT ... WHERE col = v on a table whose rows include v returns
\* the one row [v] and no other row, whatever else the table holds.
C3_SelectEqual ==
  \A n \in TableNames, v \in Ints :
    (last.stmt = SelectFrom(n, BinaryOp("Eq", IntExpr(v)))
       /\ v \in inserted[n]) =>
      last.result = RecordsSelected(<<<<TypeInt(v)>>>>)

\* An equality SELECT on a table that holds other values too.
C3_Witness ==
  /\ last.stmt = SelectFrom("simple_table", BinaryOp("Eq", IntExpr(2)))
  /\ inserted["simple_table"] = Ints
  /\ last.result = RecordsSelected(<<<<TypeInt(2)>>>>)

\* C4: SELECT ... WHERE col BETWEEN low AND high on a table that holds
\* rows returns the stored rows v with low <= v <= high, both endpoints
\* included, in ascending order, and the predicate given to the backend
\* for the plain form is Where::Between(low, high).
C4_SelectBetween ==
  /\ \A lo \in Ints, hi \in Ints :
       BetweenWhere(FALSE, TypeInt(lo), TypeInt(hi))
         = WhereBetween(TypeInt(lo), TypeInt(hi))
  /\ \A n \in TableNames, lo \in Ints, hi \in Ints :
       (last.stmt = SelectFrom(n, Between(FALSE, IntExpr(lo), IntExpr(hi)))
          /\ inserted[n] # {}) =>
         last.result =
           RecordsSelected(
             RowsInOrder({v \in inserted[n] : lo <= v /\ v <= hi}))

\* A BETWEEN whose endpoints are stored rows, with a row below the range.
C4_Witness ==
  /\ last.stmt =
       SelectFrom("simple_table", Between(FALSE, IntExpr(2), IntExpr(3)))
  /\ inserted["simple_table"] = Ints
  /\ last.result = RecordsSelected(<<<<TypeInt(2)>>, <<TypeInt(3)>>>>)

\* The outcome a SELECT of this WHERE clause has in the current state.
QueryResult(n, selection) == ExecuteQuery(SelectFrom(n, selection)).result

\* C5: SELECT ... WHERE col NOT BETWEEN low AND high returns the stored
\* rows that the BETWEEN low AND high form does not return: the two results
\* share no row and together are the result of the SELECT with no WHERE
\* clause; when that SELECT returns no rows, neither form returns rows.
C5_NotBetweenComplement ==
  \A n \in TableNames, lo \in Ints, hi \in Ints :
    last.stmt = SelectFrom(n, Between(TRUE, IntExpr(lo), IntExpr(hi))) =>
      LET out == last.result
          plain == QueryResult(n, Between(FALSE, IntExpr(lo), IntExpr(hi)))
          all == QueryResult(n, NoSelection)
      IN IF all.r = "RecordsSelected"
           THEN /\ out.r = "RecordsSelected"
                /\ plain.r = "RecordsSelected"
                /\ SeqRange(out.records) \cap SeqRange(plain.records) = {}
                /\ SeqRange(out.records) \cup SeqRange(plain.records)
                     = SeqRange(all.records)
                /\ Len(out.records) + Len(plain.records) = Len(all.records)
                /\ out.records =
                     RowsInOrder({v \in inserted[n] : ~(lo <= v /\ v <= hi)})
           ELSE out.r # "RecordsSelected" /\ plain.r # "RecordsSelected"

\* A NOT BETWEEN that returns some rows of the table and leaves some out.
C5_Witness ==
  /\ last.stmt =
       SelectFrom("simple_table", Between(TRUE, IntExpr(2), IntExpr(2)))
  /\ inserted["simple_table"] = Ints
  /\ last.result.r = "RecordsSelected"
  /\ Len(last.result.records) = MaxInt - 1

\* The integers an IN list of integer literals names.
Listed(list) == {list[i].lit.n : i \in DOMAIN list}

\* The IN lists made of integer literals only.
IntInLists == {l \in InLists : \A i \in DOMAIN l : l[i] \in IntExprs}

\* C6: SELECT ... WHERE col IN (v1, v2, ...) on a table that holds rows
\* returns the stored rows whose value is one of the listed values, in
\* ascending order.
C6_SelectIn ==
  \A n \in TableNames, list \in IntInLists :
    (last.stmt = SelectFrom(n, InList(FALSE, list)) /\ inserted[n] # {}) =>
      last.result =
        RecordsSelected(RowsInOrder(inserted[n] \cap Listed(list)))

\* C7: SELECT ... WHERE col NOT IN (v1, v2, ...) on a table that holds rows
\* returns the stored rows whose value is none of the listed values, and
\* the IN form over the same list returns a different result.
C7_SelectNotIn ==
  \A n \in TableNames, list \in IntInLists :
    (last.stmt = SelectFrom(n, InList(TRUE, list)) /\ inserted[n] # {}) =>
      /\ last.result =
           RecordsSelected(RowsInOrder(inserted[n] \ Listed(list)))
      /\ QueryResult(n, InList(FALSE, list)) # last.result

\* The WHERE clauses SELECT supports, over integer literals.
SupportedSelections ==
  {NoSelection} \cup IntEqSelections
    \cup {Between(neg, lo, hi) :
            neg \in BOOLEAN, lo \in IntExprs, hi \in IntExprs}
    \cup {InList(neg, l) : neg \in BOOLEAN, l \in IntInLists}

\* C8: a SELECT against a table name that was never created returns
\* TableDoesNotExist(name), for every supported WHERE clause.
C8_SelectMissingTable ==
  \A n \in TableNames, selection \in SupportedSelections :
    (last.stmt = SelectFrom(n, selection) /\ n \notin created) =>
      last.result = TableDoesNotExist(n)

\* C9: an INSERT of an integer literal into a table name that was never
\* created returns TableDoesNotExist(name) and creates no table: the
\* CREATE TABLE of that name that follows returns TableCreated and the new
\* table holds no rows.
C9_InsertMissingTable ==
  /\ [](\A n \in TableNames, v \in Ints :
          (last.stmt = InsertValue(n, v) /\ n \notin prev.created) =>
            /\ last.result = TableDoesNotExist(n)
            /\ LastChangedNothing
            /\ n \notin DOMAIN storage
            /\ n \notin DOMAIN tables
            /\ n \notin created)
  /\ [][\A n \in TableNames, v \in Ints :
          (/\ last.stmt = InsertValue(n, v)
           /\ n \notin created
           /\ last'.stmt = CreateTableStmt(n)) =>
            /\ last'.result = TableCreated(n)
            /\ DOMAIN storage'[n] = {}
            /\ DOMAIN tables'[n] = {}
            /\ inserted'[n] = {}]_vars

\* An INSERT refused for a missing table while another table exists.
C9_Witness ==
  /\ last.stmt = InsertValue("simple_table", 1)
  /\ last.result = TableDoesNotExist("simple_table")
  /\ "another_table" \in created
  /\ "simple_table" \notin created

\* C10: UPDATE and DELETE against a table name that was never created
\* return TableDoesNotExist(name) whatever the WHERE clause and the
\* assignment are, and leave all state as it was.
C10_MutateMissingTable ==
  \A n \in TableNames :
    (last.stmt.st \in {"Update", "Delete"} /\ last.stmt.table_name = n
       /\ n \notin prev.created) =>
      /\ last.result = TableDoesNotExist(n)
      /\ LastChangedNothing
      /\ created = prev.created

\* A DELETE with an unsupported WHERE clause refused for the missing table.
C10_Witness ==
  /\ last.stmt = DeleteStmt("simple_table", IsNullSelection)
  /\ last.result = TableDoesNotExist("simple_table")
  /\ "another_table" \in created

\* The rows a SELECT with no WHERE clause returned from this table before
\* the last call: the outcome of storage.select on the maps the call found.
RowsBefore(n) == StorageSelect(prev.storage, n, WhereNone)

\* The rows with every row [k] replaced by [v], each in its position.
Replaced(rows, k, v) ==
  [i \in DOMAIN rows |->
     IF rows[i] = <<TypeInt(k)>> THEN <<TypeInt(v)>> ELSE rows[i]]

\* The rows without the row [k], the others in their order.
RECURSIVE Without(_, _)
Without(rows, k) ==
  IF rows = <<>> THEN <<>>
  ELSE IF Head(rows) = <<TypeInt(k)>> THEN Without(Tail(rows), k)
  ELSE <<Head(rows)>> \o Without(Tail(rows), k)

\* C11: an UPDATE is visible to the SELECT that follows: on a table that
\* holds rows, UPDATE ... SET col = v with no WHERE clause returns
\* RecordsUpdated and a SELECT with no WHERE clause then returns one row [v]
\* per row stored before; UPDATE ... SET col = v WHERE col = k returns
\* RecordsUpdated and the SELECT then returns the rows stored before with
\* the row [k] replaced by [v] in the position k had.
C11_UpdateVisible ==
  \A n \in TableNames, v \in Ints :
    LET before == RowsBefore(n)
    IN before.ok =>
         /\ last.stmt = UpdateStmt(n, <<IntExpr(v)>>, NoSelection) =>
              /\ last.result = RecordsUpdated
              /\ QueryResult(n, NoSelection) =
                   RecordsSelected([i \in DOMAIN before.records |->
                                      <<TypeInt(v)>>])
         /\ \A k \in Ints :
              (last.stmt =
                 UpdateStmt(n, <<IntExpr(v)>>, BinaryOp("Eq", IntExpr(k)))
                 /\ <<TypeInt(k)>> \in SeqRange(before.records)) =>
                /\ last.result = RecordsUpdated
                /\ QueryResult(n, NoSelection) =
                     RecordsSelected(Replaced(before.records, k, v))

\* C12: a DELETE is visible to the SELECT that follows: on a table that
\* holds rows, DELETE ... WHERE col = k returns RecordsDeleted and a SELECT
\* with no WHERE clause then returns the rows stored before without [k];
\* DELETE with no WHERE clause returns RecordsDeleted and the SELECT then
\* returns RecordsSelected with an empty list.
C12_DeleteVisible ==
  \A n \in TableNames :
    LET before == RowsBefore(n)
    IN before.ok =>
         /\ last.stmt = DeleteStmt(n, NoSelection) =>
              /\ last.result = RecordsDeleted
              /\ QueryResult(n, NoSelection) = RecordsSelected(<<>>)
         /\ \A k \in Ints :
              (last.stmt = DeleteStmt(n, BinaryOp("Eq", IntExpr(k)))
                 /\ <<TypeInt(k)>> \in SeqRange(before.records)) =>
                /\ last.result = RecordsDeleted
                /\ QueryResult(n, NoSelection) =
                     RecordsSelected(Without(before.records, k))

\* The outcome values: the variants of EngineEvent and of ErrorEvent.
EngineEvents ==
  {"TableCreated", "RecordInserted", "RecordsSelected", "RecordsUpdated",
   "RecordsDeleted"}
ErrorEvents == {"TableAlreadyExists", "UnimplementedBranch", "TableDoesNotExist"}

\* The last call was made on a statement.
Called == last.stmt.st # "None"

\* C13: every call returns an outcome value, an EngineEvent or an
\* ErrorEvent, and never aborts; a SELECT with an empty FROM list, an INSERT
\* whose VALUES list or first row is empty and an UPDATE of an existing
\* table with no assignment return UnimplementedBranch.
C13_NeverAborts ==
  Called =>
    /\ last.result.r \in EngineEvents \cup ErrorEvents
    /\ (last.stmt.st = "Query" /\ last.stmt.b = "Select"
          /\ last.stmt.from = <<>>) =>
         last.result.r = "UnimplementedBranch"
    /\ (last.stmt.st = "Insert" /\ last.stmt.body.b = "Values"
          /\ (last.stmt.body.rows = <<>> \/ last.stmt.body.rows[1] = <<>>)) =>
         last.result.r = "UnimplementedBranch"
    /\ (last.stmt.st = "Update" /\ last.stmt.assignments = <<>>
          /\ last.stmt.table_name \in prev.created) =>
         last.result.r = "UnimplementedBranch"

\* A literal that is no integer literal.
NonIntLiteral(e) == e.e = "Value" /\ e.lit.l # "Number"

\* The statement has a literal that is no integer in a literal position:
\* the INSERT value, the UPDATE assignment value, the right-hand side of an
\* UPDATE, DELETE or SELECT equality, a BETWEEN bound or an IN list item.
HasNonIntLiteral(stmt) ==
  CASE stmt.st = "Insert" ->
         /\ stmt.body.b = "Values"
         /\ stmt.body.rows # <<>>
         /\ stmt.body.rows[1] # <<>>
         /\ NonIntLiteral(stmt.body.rows[1][1])
    [] stmt.st = "Update" ->
         \/ stmt.assignments # <<>> /\ NonIntLiteral(stmt.assignments[1])
         \/ /\ stmt.selection.s = "BinaryOp"
            /\ stmt.selection.op = "Eq"
            /\ NonIntLiteral(stmt.selection.right)
    [] stmt.st = "Delete" ->
         /\ stmt.selection.s = "BinaryOp"
         /\ stmt.selection.op = "Eq"
         /\ NonIntLiteral(stmt.selection.right)
    [] stmt.st = "Query" ->
         /\ stmt.b = "Select"
         /\ Len(stmt.from) = 1
         /\ stmt.from[1].relation.f = "Table"
         /\ CASE stmt.selection.s = "BinaryOp" ->
                   stmt.selection.op = "Eq"
                     /\ NonIntLiteral(stmt.selection.right)
              [] stmt.selection.s = "Between" ->
                   NonIntLiteral(stmt.selection.low)
                     \/ NonIntLiteral(stmt.selection.high)
              [] stmt.selection.s = "InList" ->
                   \E i \in DOMAIN stmt.selection.list :
                     NonIntLiteral(stmt.selection.list[i])
              [] OTHER -> FALSE
    [] OTHER -> FALSE

\* The last call was an UPDATE or DELETE of a table never created.
MutatedMissingTable ==
  /\ last.stmt.st \in {"Update", "Delete"}
  /\ last.stmt.table_name \notin prev.created

TargetKeys(table, stmt) ==
  IF stmt.selection.s = "None"
    THEN DOMAIN table
    ELSE DOMAIN table \cap {stmt.selection.right.lit.n}

\* The table with the UPDATE or DELETE applied to every row it is aimed at.
FullyApplied(table, stmt) ==
  IF stmt.st = "Update"
    THEN [k \in DOMAIN table |->
            IF k \in TargetKeys(table, stmt)
              THEN <<TypeInt(stmt.assignments[1].lit.n)>>
              ELSE table[k]]
    ELSE [k \in DOMAIN table \ TargetKeys(table, stmt) |-> table[k]]

\* The rows of a backend table in key order: what a SELECT can return.
RowsOf(table) ==
  LET order == Ascending(DOMAIN table)
  IN [i \in DOMAIN order |-> table[order[i]]]

C16_NoPartialCommit ==
  last.result.r \in ErrorEvents =>
    /\ LastChangedNothing
    /\ created = prev.created
    /\ DOMAIN tables = DOMAIN prev.tables
    /\ DOMAIN storage = DOMAIN prev.storage

\* An UPDATE of a table holding rows whose WHERE clause is accepted and
\* whose assignment is refused.
C16_Witness ==
  /\ last.stmt = UpdateStmt("simple_table", <<IdentifierExpr>>,
                            BinaryOp("Eq", IntExpr(1)))
  /\ last.result.r = "UnimplementedBranch"
  /\ 1 \in inserted["simple_table"]

\* A WHERE clause UPDATE and DELETE support: none, or an equality with a
\* literal.
MutationSupports(selection) ==
  \/ selection.s = "None"
  \/ /\ selection.s = "BinaryOp"
     /\ selection.op = "Eq"
     /\ selection.right.e = "Value"

\* C17: UPDATE and DELETE accept an absent WHERE clause and an equality
\* with a literal only: on an existing table every other WHERE clause, a
\* comparison by another operator included, returns UnimplementedBranch and
\* changes no row.
C17_MutationWhereShapes ==
  (/\ last.stmt.st \in {"Update", "Delete"}
   /\ last.stmt.table_name \in prev.created
   /\ ~MutationSupports(last.stmt.selection)) =>
    last.result.r = "UnimplementedBranch" /\ LastChangedNothing

\* A WHERE clause SELECT supports: none, an equality with a literal, a
\* BETWEEN of two literals, an IN list of literals.
QuerySupports(selection) ==
  CASE selection.s = "None" -> TRUE
    [] selection.s = "BinaryOp" ->
         selection.op = "Eq" /\ selection.right.e = "Value"
    [] selection.s = "Between" ->
         selection.low.e = "Value" /\ selection.high.e = "Value"
    [] selection.s = "InList" ->
         \A i \in DOMAIN selection.list : selection.list[i].e = "Value"
    [] OTHER -> FALSE

C19_InsertSingleValue ==
  (/\ last.stmt.st = "Insert"
   /\ last.stmt.table_name \in prev.created
   /\ last.stmt.body.b = "Values"
   /\ \/ Len(last.stmt.body.rows) > 1
      \/ Len(last.stmt.body.rows) = 1 /\ Len(last.stmt.body.rows[1]) > 1) =>
    last.result.r = "UnimplementedBranch" /\ LastChangedNothing

\* C20: a SELECT whose FROM clause lists more than one table, or whose
\* first table carries a JOIN, returns UnimplementedBranch.
C20_QuerySingleTable ==
  (/\ last.stmt.st = "Query"
   /\ last.stmt.b = "Select"
   /\ \/ Len(last.stmt.from) > 1
      \/ Len(last.stmt.from) = 1 /\ last.stmt.from[1].joins # 0) =>
    last.result.r = "UnimplementedBranch"

\* An UPDATE or DELETE of a created table by an equality with the integer
\* k, the UPDATE with an integer for its first assignment.
MutatesByKey(stmt, n, k) ==
  /\ stmt.st \in {"Update", "Delete"}
  /\ stmt.table_name = n
  /\ stmt.selection = BinaryOp("Eq", IntExpr(k))
  /\ stmt.st = "Update" =>
       stmt.assignments # <<>> /\ stmt.assignments[1] \in IntExprs

\* C21: an UPDATE or DELETE by WHERE col = k on an existing table that
\* holds no row of value k returns RecordsUpdated or RecordsDeleted, no
\* error, and leaves every row of every table as it was.
C21_MissingKeySkipped ==
  \A n \in TableNames, k \in Ints :
    (/\ MutatesByKey(last.stmt, n, k)
     /\ n \in prev.created
     /\ k \notin inserted[n]) =>
      /\ last.result = IF last.stmt.st = "Update"
                         THEN RecordsUpdated ELSE RecordsDeleted
      /\ LastChangedNothing

\* A DELETE by a value the table, which holds another value, never held.
C21_Witness ==
  /\ last.stmt = DeleteStmt("simple_table", BinaryOp("Eq", IntExpr(2)))
  /\ last.result = RecordsDeleted
  /\ inserted["simple_table"] = {1}

\* C22: the names in the Engine's registry are the names the backend
\* holds: a CREATE TABLE that succeeds adds its name to both, one that
\* fails adds it to neither, and no call removes a name from either.
C22_RegistryMirrorsStorage ==
  /\ DOMAIN tables = DOMAIN storage
  /\ DOMAIN prev.tables \subseteq DOMAIN tables
  /\ DOMAIN prev.storage \subseteq DOMAIN storage
  /\ last.result.r = "TableCreated" =>
       /\ last.result.name \notin DOMAIN prev.tables \cup DOMAIN prev.storage
       /\ DOMAIN tables = DOMAIN prev.tables \cup {last.result.name}
  /\ last.result.r # "TableCreated" =>
       DOMAIN tables = DOMAIN prev.tables

\* A CREATE TABLE that fails once both tables exist.
C22_Witness ==
  /\ last.stmt = CreateTableStmt("simple_table")
  /\ last.result = TableAlreadyExists("simple_table")
  /\ DOMAIN tables = TableNames

\* C23: a table, once created, exists after every further call, a DELETE of
\* all its rows and a DROP TABLE included: a CREATE TABLE of its name
\* returns TableAlreadyExists and an INSERT of an integer returns
\* RecordInserted.
C23_TablePermanence ==
  \A n \in TableNames :
    /\ n \in prev.created => n \in created
    /\ n \in created => n \in DOMAIN tables /\ n \in DOMAIN storage
    /\ n \in prev.created =>
         /\ last.stmt = CreateTableStmt(n) =>
              last.result = TableAlreadyExists(n)
         /\ \A v \in Ints :
              last.stmt = InsertValue(n, v) => last.result = RecordInserted
         /\ last.stmt = DropStmt(n) =>
              last.result.r = "UnimplementedBranch"

\* A DROP TABLE of a table with rows, which leaves the table and its rows.
C23_Witness ==
  /\ last.stmt = DropStmt("simple_table")
  /\ last.result.r = "UnimplementedBranch"
  /\ "simple_table" \in DOMAIN storage
  /\ inserted["simple_table"] # {}
  /\ DOMAIN storage["simple_table"] = inserted["simple_table"]

\* The values of the rows, in the order given.
ValuesOf(records) == [i \in DOMAIN records |-> records[i][1].v]

\* No value is met twice.
Distinct(values) ==
  \A i, j \in DOMAIN values : values[i] = values[j] => i = j

\* C24: a row is keyed by its value. An INSERT of a value the table holds
\* returns RecordInserted and leaves one row of that value, a SELECT with
\* no WHERE never returns a value twice, and a table holds as many rows as
\* distinct values were inserted and not deleted: a DELETE of a value the
\* table holds leaves one row less.
C24_KeyedByValue ==
  \A n \in TableNames :
    /\ \A v \in Ints :
         (/\ last.stmt = InsertValue(n, v)
          /\ n \in DOMAIN prev.storage
          /\ v \in DOMAIN prev.storage[n]) =>
           last.result = RecordInserted /\ storage = prev.storage
    /\ (last.stmt = SelectFrom(n, NoSelection)
          /\ last.result.r = "RecordsSelected") =>
         Distinct(ValuesOf(last.result.records))
    /\ \A k \in Ints :
         (/\ last.stmt = DeleteStmt(n, BinaryOp("Eq", IntExpr(k)))
          /\ last.result = RecordsDeleted
          /\ k \in DOMAIN prev.storage[n]) =>
           Cardinality(DOMAIN storage[n]) =
             Cardinality(DOMAIN prev.storage[n]) - 1

RowsIn(t, s, n) ==
  <<IF n \in DOMAIN t THEN t[n] ELSE EmptyMap,
    IF n \in DOMAIN s THEN s[n] ELSE EmptyMap>>

\* C26: an INSERT, UPDATE or DELETE leaves the rows of every table it does
\* not name as they were, a CREATE TABLE leaves the rows of every existing
\* table as they were, and a SELECT changes nothing, so that the same
\* SELECT, called again at once, returns the same result.
C26_TableIsolation ==
  /\ [](/\ \A n \in TableNames :
             (/\ last.stmt.st \in {"Insert", "Update", "Delete"}
              /\ last.stmt.table_name # n) =>
               RowsIn(tables, storage, n) = RowsIn(prev.tables, prev.storage, n)
        /\ last.stmt.st = "CreateTable" =>
             \A n \in DOMAIN prev.storage :
               RowsIn(tables, storage, n) = RowsIn(prev.tables, prev.storage, n)
        /\ last.stmt.st = "Query" => LastChangedNothing)
  /\ [][(last.stmt.st = "Query" /\ last'.stmt = last.stmt) =>
          last'.result = last.result]_vars

\* An INSERT into one table while the other one holds a row.
C26_Witness ==
  /\ last.stmt = InsertValue("simple_table", 2)
  /\ last.result = RecordInserted
  /\ "another_table" \in DOMAIN storage
  /\ DOMAIN storage["another_table"] = {1}
  /\ 2 \notin DOMAIN prev.storage["simple_table"]

\* C27: one call executes one statement at most. Of a text of several
\* statements the last one alone is executed, the earlier ones change no
\* table, and a text of no statement returns UnimplementedBranch and
\* changes nothing.
C27_OneStatementPerCall ==
  /\ [](last.stmt = NoStatement =>
          /\ parsed = <<>>
          /\ last.result.r = "UnimplementedBranch"
          /\ LastChangedNothing)
  /\ [][\A statements \in Scripts :
          (parsed' = statements /\ Len(statements) > 1) =>
            LET only == ExecuteStatement(statements[Len(statements)])
            IN /\ last'.stmt = statements[Len(statements)]
               /\ last'.result = only.result
               /\ tables' = only.tables
               /\ storage' = only.storage]_vars

\* A CREATE TABLE followed in the same text by an INSERT into that table:
\* the table is never created and the INSERT finds none.
C27_Witness ==
  /\ parsed = <<CreateTableStmt("simple_table"), InsertValue("simple_table", 2)>>
  /\ last.result = TableDoesNotExist("simple_table")
  /\ storage = EmptyMap

====
